---- MODULE Spec2Model ----
(***************************************************************************)
(* The plan / execute / reflect / report loop of ResearchAgent             *)
(* (src/ResearchAgent.py).                                                 *)
(*                                                                         *)
(* Python values are modelled structurally:                                *)
(*   - a str is [tag |-> "str", lines |-> <<line, ...>>], a line being a   *)
(*     sequence of text pieces, so that "Failed: " + msg is the one-line   *)
(*     string << <<"Failed: ", msg>> >> and a prefix test reads the first  *)
(*     piece; the empty string has no lines;                               *)
(*   - None is [tag |-> "None"];                                           *)
(*   - a JSON value that is no list is [tag |-> "int"].                    *)
(***************************************************************************)
EXTENDS Integers, Sequences, FiniteSets, TLC

VARIABLES
    pc,             \* position of the control thread inside conduct_research
    plan,           \* self.current_plan.steps
    idx,            \* position of the for loop of conduct_research in plan
    research_data,  \* self.research_data
    response,       \* the completion reply create_research_plan is parsing
    ret,            \* value returned by the last call / exception in flight
    calls,          \* history: the methods conduct_research has invoked
    findings,       \* history: the findings of the last prompt built from steps
    web,            \* history: locals of the last _execute_web_search_step
    saved,          \* number of report artifacts written
    result,         \* what conduct_research returned
    session         \* history: invocations of conduct_research on this agent

vars == <<pc, plan, idx, research_data, response, ret, calls, findings, web,
          saved, result, session>>

-----------------------------------------------------------------------------
(* Bounds of the model.                                                    *)

\* longest plan a completion reply may carry (the default plan has 6 steps)
MaxSteps == 2

\* number of steps of the plans whose report is assembled in SpecReport
MaxReportSteps == 4

\* most non-blank lines of a reply to the query request in SpecSearch
MaxLines == 4

\* step ids a completion reply may carry: a non-positive one, one that is no
\* multiple of 3 and one that is (the default plan adds the ids 1..6)
StepIds == {0, 1, 3}

-----------------------------------------------------------------------------
(* Python values.                                                          *)

NoneVal == [tag |-> "None"]

Str(lines) == [tag |-> "str", lines |-> lines]

Line(piece) == <<piece>>

EmptyStr == Str(<<>>)

Text(piece) == Str(<<Line(piece)>>)

\* bool(v) for an Optional[str]: None and "" are falsy
Truthy(v) == v.tag = "str" /\ v.lines # <<>>

\* v.startswith(prefix)
StartsWith(v, prefix) ==
    /\ v.tag = "str"
    /\ Len(v.lines) >= 1
    /\ Len(v.lines[1]) >= 1
    /\ v.lines[1][1] = prefix

\* a + b for a one-piece prefix a and an exception message b
Concat(prefix, msg) == Str(<< <<prefix, msg>> >>)

List(items) == [tag |-> "list", items |-> items]

NotIterable == [tag |-> "int"]

\* x in container, for a list (evaluated only when the container is a list)
Contains(container, x) ==
    \E k \in 1..Len(container.items) : container.items[k] = x

\* whether "x in container" raises TypeError (argument is not iterable)
InRaises(container) == container.tag # "list"

-----------------------------------------------------------------------------
(* LMStudioClient.chat_completion                                          *)

\* what the completion server may do with a request: fail (transport, HTTP
\* status, malformed body), or answer with a content that is a text, an empty
\* text or JSON null
Outcomes ==
    {[ok |-> FALSE]} \cup
    {[ok |-> TRUE, content |-> c] : c \in {Text("text"), EmptyStr, NoneVal}}

ErrorText == Str(<< <<"Error: ", "Could not get response from LLM - ", "e">> >>)

chat_completion(o) == IF o.ok THEN o.content ELSE ErrorText

-----------------------------------------------------------------------------
(* ResearchStep and the plan replies                                       *)

Unset == [tag |-> "unset"]

\* ResearchStep.__init__ and __post_init__
ResearchStep(step_id, description, tools_used) ==
    [step_id     |-> step_id,
     description |-> description,
     status      |-> "pending",
     result      |-> NoneVal,
     tools_used  |-> IF tools_used = NoneVal THEN List(<<>>) ELSE tools_used]

\* mutant: the last default step is tagged for the web-search path too
DefaultPlanAllSearch ==
    << ResearchStep(1, "Define key concepts and terminology", List(<<"web_search">>)),
       ResearchStep(2, "Search for recent academic sources", List(<<"web_search">>)),
       ResearchStep(3, "Gather statistical data and facts", List(<<"web_search">>)),
       ResearchStep(4, "Find expert opinions and analysis", List(<<"web_search">>)),
       ResearchStep(5, "Identify controversies or debates", List(<<"web_search">>)),
       ResearchStep(6, "Synthesize findings", List(<<"web_search">>)) >>

_create_default_plan ==
    << ResearchStep(1, "Define key concepts and terminology", List(<<"web_search">>)),
       ResearchStep(2, "Search for recent academic sources", List(<<"web_search">>)),
       ResearchStep(3, "Gather statistical data and facts", List(<<"web_search">>)),
       ResearchStep(4, "Find expert opinions and analysis", List(<<"web_search">>)),
       ResearchStep(5, "Identify controversies or debates", List(<<"web_search">>)),
       ResearchStep(6, "Synthesize findings", List(<<>>)) >>

\* values of "tools_needed" a reply may carry
ToolVals ==
    { List(<<>>), List(<<"web_search">>), List(<<"pdf_reader">>),
      List(<<"web_search", "pdf_reader">>), NotIterable }

\* entries of the "steps" array of a reply: a JSON object is a record holding
\* the keys that are present; anything else is no object
PlanEntries ==
    [tag : {"dict"}, step_id : StepIds, description : {"d"},
     tools_needed : ToolVals \cup {NoneVal}]
    \cup [tag : {"dict"}, step_id : StepIds, description : {"d"}]
    \cup { [tag |-> "dict", step_id |-> 1],
           [tag |-> "dict", description |-> "d"],
           NotIterable }

SeqsUpTo(S, n) == UNION { [1..m -> S] : m \in 0..n }

\* what re.search(r'\{.*\}', response, re.DOTALL) can find in a reply and what
\* json.loads makes of it
PlanBlocks ==
    { [kind |-> "invalid"],
      [kind |-> "object"],
      [kind |-> "object", steps |-> NotIterable] }
    \cup { [kind |-> "object", steps |-> List(es)] :
             es \in SeqsUpTo(PlanEntries, MaxSteps) }

\* what the completion server may do with the planning request
PlanOutcomes ==
    {[ok |-> FALSE]}
    \cup {[ok |-> TRUE, content |-> c] : c \in {Text("no braces"), NoneVal}}
    \cup {[ok |-> TRUE,
           content |-> [tag |-> "str", lines |-> <<Line("plan")>>, json |-> b]] :
             b \in PlanBlocks}

\* json_match: the block of the reply, if any
HasBlock(v) == "json" \in DOMAIN v

\* whether the try block of create_research_plan raises on this reply
PlanParseRaises(v) ==
    \/ v.tag # "str"                          \* re.search(pattern, None)
    \/ /\ HasBlock(v)
       /\ \/ v.json.kind = "invalid"          \* json.loads
          \/ ~ ("steps" \in DOMAIN v.json)     \* plan_data["steps"]
          \/ v.json.steps.tag # "list"         \* for step in plan_data["steps"]
          \/ \E k \in 1..Len(v.json.steps.items) :
                LET e == v.json.steps.items[k] IN
                  \/ e.tag # "dict"            \* step["step_id"] on a non-object
                  \/ ~ ("step_id" \in DOMAIN e)
                  \/ ~ ("description" \in DOMAIN e)

\* steps sorted by step_id (ties in any order)
SortedById(steps) ==
    CHOOSE t \in [1..Len(steps) -> { steps[k] : k \in 1..Len(steps) }] :
      /\ \A k \in 1..(Len(steps) - 1) : t[k].step_id <= t[k + 1].step_id
      /\ \A x \in { steps[k] : k \in 1..Len(steps) } :
            Cardinality({ k \in 1..Len(steps) : t[k] = x })
              = Cardinality({ k \in 1..Len(steps) : steps[k] = x })

\* mutant: the steps of the reply are sorted by step_id
CreatePlanSorted(v) ==
    IF PlanParseRaises(v) THEN _create_default_plan
    ELSE IF ~ HasBlock(v) THEN _create_default_plan
    ELSE SortedById([k \in 1..Len(v.json.steps.items) |->
            LET e == v.json.steps.items[k] IN
              ResearchStep(e.step_id, e.description,
                           IF "tools_needed" \in DOMAIN e
                             THEN e.tools_needed ELSE List(<<>>))])

\* create_research_plan, from the reply on: the steps of the plan
create_research_plan(v) ==
    IF PlanParseRaises(v) THEN _create_default_plan
    ELSE IF ~ HasBlock(v) THEN _create_default_plan
    ELSE [k \in 1..Len(v.json.steps.items) |->
            LET e == v.json.steps.items[k] IN
              ResearchStep(e.step_id, e.description,
                           IF "tools_needed" \in DOMAIN e
                             THEN e.tools_needed ELSE List(<<>>))]

-----------------------------------------------------------------------------
(* WebSearchTool and the locals of _execute_web_search_step                *)

\* queries kept of a reply: [...][:3]
MaxQueries == 3

\* results whose page is fetched: all_results[:3]
FetchTop == 3

\* search_duckduckgo's default num_results
NumResults == 5

Min(a, b) == IF a < b THEN a ELSE b

\* s[:n]
Prefix(s, n) == SubSeq(s, 1, Min(n, Len(s)))

\* q.strip() is empty
IsBlank(line) == \A k \in 1..Len(line) : line[k] \in {"", " "}

\* [q.strip() for q in query_response.split('\n') if q.strip()][:3]
Queries(query_response) ==
    Prefix(SelectSeq(query_response.lines, LAMBDA l : ~ IsBlank(l)), MaxQueries)

\* search_duckduckgo(query): the answer of the search service is a failure
\* (any exception of the request or of its decoding) or the decoded data: an
\* abstract ("none", or the value of its URL) and the related topics (each
\* "notext", or the value of its URL)
search_duckduckgo(answer, num_results) ==
    IF ~ answer.ok
      THEN << [title |-> "Search Error", url |-> "",
               snippet |-> "Could not perform search: e", source |-> "error"] >>
      ELSE
        LET abstract ==
              IF answer.abstract = "none" THEN <<>>
              ELSE << [title |-> "Heading", url |-> answer.abstract,
                       snippet |-> "Abstract", source |-> "duckduckgo_abstract"] >>
            kept == SelectSeq(Prefix(answer.topics, num_results - 1),
                              LAMBDA t : t # "notext")
            related == [k \in 1..Len(kept) |->
                          [title |-> "Text...", url |-> kept[k],
                           snippet |-> "Text", source |-> "duckduckgo_related"]]
        IN Prefix(abstract \o related, num_results)

\* fetch_webpage(url): the page text, or the error text
fetch_webpage(page_ok) ==
    IF page_ok THEN Text("page")
    ELSE Str(<< <<"Error fetching webpage: ", "e">> >>)

RECURSIVE Flatten(_)
\* all_results after the loop over the queries: all_results.extend(results)
Flatten(seqs) ==
    IF seqs = <<>> THEN <<>> ELSE Head(seqs) \o Flatten(Tail(seqs))

\* mutant: the results without URL are dropped before the first FetchTop are
\* taken
WebLocalsSkipFirst(env) ==
    LET queries == Queries(chat_completion(env.qo))
        per_query == [k \in 1..Len(queries) |->
                        search_duckduckgo(env.answers[k], NumResults)]
        all_results == Flatten(per_query)
        fetched == Prefix(SelectSeq([k \in 1..Len(all_results) |-> k],
                                    LAMBDA k : all_results[k].url # ""),
                          FetchTop)
        content_samples ==
            [j \in 1..Len(fetched) |->
               [title |-> all_results[fetched[j]].title,
                url |-> all_results[fetched[j]].url,
                content |-> fetch_webpage(env.page_ok)]]
    IN [queries |-> queries, per_query |-> per_query,
        all_results |-> all_results, fetched |-> fetched,
        content_samples |-> content_samples,
        analysis_input |-> content_samples]

\* the locals of _execute_web_search_step in environment env: the reply to the
\* query request (env.qo), the answer of the search service to the k-th search
\* (env.answers[k]), whether pages can be fetched (env.page_ok)
WebLocals(env) ==
    LET queries == Queries(chat_completion(env.qo))
        per_query == [k \in 1..Len(queries) |->
                        search_duckduckgo(env.answers[k], NumResults)]
        all_results == Flatten(per_query)
        top == Prefix(all_results, FetchTop)
        fetched == SelectSeq([k \in 1..Len(top) |-> k],
                             LAMBDA k : top[k].url # "")
        content_samples ==
            [j \in 1..Len(fetched) |->
               [title |-> top[fetched[j]].title, url |-> top[fetched[j]].url,
                content |-> fetch_webpage(env.page_ok)]]
    IN [queries |-> queries, per_query |-> per_query,
        all_results |-> all_results, fetched |-> fetched,
        content_samples |-> content_samples,
        \* "Research step: ...\n\nSearch results:\n" + "\n\n".join(content_samples)
        analysis_input |-> content_samples]

\* query_response.split raises AttributeError when the reply is None
WebRaises(env) == chat_completion(env.qo).tag # "str"

-----------------------------------------------------------------------------
(* The state after construction: ResearchAgent.__init__, conduct_research  *)
(* about to start.                                                         *)

NoWeb == [queries |-> <<>>, per_query |-> <<>>, all_results |-> <<>>,
          fetched |-> <<>>, content_samples |-> <<>>, analysis_input |-> <<>>]

Init ==
    /\ pc = "start"
    /\ plan = <<>>
    /\ idx = 0
    /\ research_data = <<>>
    /\ response = Unset
    /\ ret = Unset
    /\ calls = <<>>
    /\ findings = <<>>
    /\ web = NoWeb
    /\ saved = 0
    /\ result = Unset
    /\ session = 1

Call(op, k) == [op |-> op, idx |-> k]

\* f"step_{step.step_id}"
StepKey(step_id) == <<"step_", step_id>>

\* an exception in flight, with str(e)
Exc(msg) == [tag |-> "exc", msg |-> msg]

\* the steps a prompt quotes: status == "completed" and result
Quotable(step) == step.status = "completed" /\ Truthy(step.result)

-----------------------------------------------------------------------------
(* create_research_plan                                                    *)

\* the completion call of create_research_plan returns
RequestPlan ==
    /\ pc = "start"
    /\ \E o \in PlanOutcomes : response' = chat_completion(o)
    /\ pc' = "planning"
    /\ calls' = Append(calls, Call("create_research_plan", 0))
    /\ UNCHANGED <<session, plan, idx, research_data, ret, findings, web, saved, result>>

\* the reply is parsed and self.current_plan is set
BuildPlan ==
    /\ pc = "planning"
    /\ plan' = create_research_plan(response)
    /\ pc' = "planned"
    /\ UNCHANGED <<session, idx, research_data, response, ret, calls, findings, web, saved,
                   result>>

\* create_research_plan returns and the for loop of conduct_research starts
ReturnPlan ==
    /\ pc = "planned"
    /\ response' = Unset
    /\ idx' = 1
    /\ pc' = "loop"
    /\ UNCHANGED <<session, plan, research_data, ret, calls, findings, web, saved, result>>

-----------------------------------------------------------------------------
(* execute_step                                                            *)

\* execute_step is entered for the next step of the loop
ExecBegin ==
    /\ pc = "loop"
    /\ idx <= Len(plan)
    /\ plan' = [plan EXCEPT ![idx].status = "in_progress"]
    /\ calls' = Append(calls, Call("execute_step", idx))
    /\ pc' = "dispatch"
    /\ UNCHANGED <<session, idx, research_data, response, ret, findings, web, saved, result>>

\* mutant: the document path is tested first
DispatchPdfFirst(tools_used) ==
    IF Contains(tools_used, "pdf_reader") THEN "_execute_pdf_step"
    ELSE IF Contains(tools_used, "web_search") THEN "_execute_web_search_step"
    ELSE "_execute_analysis_step"

\* the path execute_step takes for these tools
Dispatch(tools_used) ==
    IF Contains(tools_used, "web_search") THEN "_execute_web_search_step"
    ELSE IF Contains(tools_used, "pdf_reader") THEN "_execute_pdf_step"
    ELSE "_execute_analysis_step"

\* "web_search" in step.tools_used raises
DispatchRaise ==
    /\ pc = "dispatch"
    /\ InRaises(plan[idx].tools_used)
    /\ ret' = Exc("argument of type 'int' is not iterable")
    /\ pc' = "except"
    /\ calls' = Append(calls, Call("execute_step raised", idx))
    /\ UNCHANGED <<session, plan, idx, research_data, response, findings, web, saved, result>>

\* _execute_web_search_step, in an environment of envs; traced: the locals
\* are kept in web
WebSearchStep(envs, traced) ==
    /\ pc = "dispatch"
    /\ ~ InRaises(plan[idx].tools_used)
    /\ Dispatch(plan[idx].tools_used) = "_execute_web_search_step"
    /\ \E env \in envs :
         IF WebRaises(env)
           THEN /\ ret' = Exc("'NoneType' object has no attribute 'split'")
                /\ pc' = "except"
                /\ calls' = calls \o << Call("_execute_web_search_step", idx),
                                        Call("execute_step raised", idx) >>
                /\ UNCHANGED <<session, plan, web>>
           ELSE LET analysis == chat_completion(env.ao) IN
                /\ plan' = [plan EXCEPT ![idx].result = analysis,
                                        ![idx].status = "completed"]
                /\ ret' = analysis
                /\ pc' = "returned"
                /\ calls' = Append(calls, Call("_execute_web_search_step", idx))
                /\ web' = IF traced THEN WebLocals(env) ELSE web
    /\ UNCHANGED <<session, idx, research_data, response, findings, saved, result>>

PdfPlaceholder ==
    Text("PDF analysis step - implement based on your specific PDF sources")

\* mutant: the document path sets the result and leaves the status as it is
PdfStepKeepsStatus ==
    /\ pc = "dispatch"
    /\ ~ InRaises(plan[idx].tools_used)
    /\ Dispatch(plan[idx].tools_used) = "_execute_pdf_step"
    /\ plan' = [plan EXCEPT ![idx].result = PdfPlaceholder]
    /\ ret' = PdfPlaceholder
    /\ pc' = "returned"
    /\ calls' = Append(calls, Call("_execute_pdf_step", idx))
    /\ UNCHANGED <<session, idx, research_data, response, findings, web, saved, result>>

\* _execute_pdf_step
PdfStep ==
    /\ pc = "dispatch"
    /\ ~ InRaises(plan[idx].tools_used)
    /\ Dispatch(plan[idx].tools_used) = "_execute_pdf_step"
    /\ plan' = [plan EXCEPT ![idx].result = PdfPlaceholder,
                            ![idx].status = "completed"]
    /\ ret' = PdfPlaceholder
    /\ pc' = "returned"
    /\ calls' = Append(calls, Call("_execute_pdf_step", idx))
    /\ UNCHANGED <<session, idx, research_data, response, findings, web, saved, result>>

\* mutant: only the last completed step with a result is quoted
PreviousFindingsLast(steps) ==
    LET kept == SelectSeq(steps, Quotable) IN
      [k \in 1..Min(1, Len(kept)) |->
         [step_id |-> kept[Len(kept)].step_id, result |-> kept[Len(kept)].result]]

\* previous_findings of _execute_analysis_step
PreviousFindings(steps) ==
    LET kept == SelectSeq(steps, Quotable) IN
      [k \in 1..Len(kept) |->
         [step_id |-> kept[k].step_id, result |-> kept[k].result]]

\* _execute_analysis_step
AnalysisStep ==
    /\ pc = "dispatch"
    /\ ~ InRaises(plan[idx].tools_used)
    /\ Dispatch(plan[idx].tools_used) = "_execute_analysis_step"
    /\ findings' = PreviousFindings(plan)
    /\ \E o \in Outcomes :
         LET analysis == chat_completion(o) IN
           /\ plan' = [plan EXCEPT ![idx].result = analysis,
                                   ![idx].status = "completed"]
           /\ ret' = analysis
    /\ pc' = "returned"
    /\ calls' = Append(calls, Call("_execute_analysis_step", idx))
    /\ UNCHANGED <<session, idx, research_data, response, web, saved, result>>

-----------------------------------------------------------------------------
(* The body of the for loop of conduct_research                            *)

\* mutant: the mapping is replaced by the new entry
StoreResultReplaces ==
    /\ pc = "returned"
    /\ research_data' = (StepKey(plan[idx].step_id) :> ret)
    /\ IF plan[idx].step_id % 3 = 0
         THEN pc' = "reflect" /\ idx' = idx
         ELSE pc' = "loop" /\ idx' = idx + 1
    /\ UNCHANGED <<session, plan, response, ret, calls, findings, web, saved, result>>

\* execute_step has returned: the result is stored and the cadence is tested
StoreResult ==
    /\ pc = "returned"
    /\ research_data' = (StepKey(plan[idx].step_id) :> ret) @@ research_data
    /\ IF plan[idx].step_id % 3 = 0
         THEN pc' = "reflect" /\ idx' = idx
         ELSE pc' = "loop" /\ idx' = idx + 1
    /\ UNCHANGED <<session, plan, response, ret, calls, findings, web, saved, result>>

\* completed_steps of reflect_on_progress
CompletedSteps(steps) == SelectSeq(steps, LAMBDA s : s.status = "completed")

\* s.result[:200] raises TypeError for a completed step whose result is None
ReflectRaises(steps) ==
    \E k \in 1..Len(CompletedSteps(steps)) :
        CompletedSteps(steps)[k].result.tag # "str"

\* mutant: the reflection adjusts the plan, tagging the steps still to come
\* for the web-search path
ReflectAdjusts ==
    /\ pc = "reflect"
    /\ calls' = Append(calls, Call("reflect_on_progress", idx))
    /\ plan' = [k \in 1..Len(plan) |->
                  IF k > idx
                    THEN [plan[k] EXCEPT !.tools_used = List(<<"web_search">>)]
                    ELSE plan[k]]
    /\ IF ReflectRaises(plan)
         THEN /\ ret' = Exc("'NoneType' object is not subscriptable")
              /\ pc' = "except"
              /\ idx' = idx
         ELSE /\ ret' = ret
              /\ pc' = "loop"
              /\ idx' = idx + 1
    /\ UNCHANGED <<session, research_data, response, findings, web, saved, result>>

\* reflect_on_progress
Reflect ==
    /\ pc = "reflect"
    /\ calls' = Append(calls, Call("reflect_on_progress", idx))
    /\ IF ReflectRaises(plan)
         THEN /\ ret' = Exc("'NoneType' object is not subscriptable")
              /\ pc' = "except"
              /\ idx' = idx
         ELSE /\ ret' = ret          \* the reflection is printed and dropped
              /\ pc' = "loop"
              /\ idx' = idx + 1
    /\ UNCHANGED <<session, plan, research_data, response, findings, web, saved, result>>

\* mutant: the except clause records the failure and the step is run again
HandleExceptionRetries ==
    /\ pc = "except"
    /\ plan' = [plan EXCEPT ![idx].status = "failed",
                            ![idx].result = Concat("Failed: ", ret.msg)]
    /\ ret' = Unset
    /\ idx' = idx
    /\ pc' = "loop"
    /\ UNCHANGED <<session, research_data, response, calls, findings, web, saved, result>>

\* mutant: the except clause records the failure and leaves the loop
HandleExceptionAborts ==
    /\ pc = "except"
    /\ plan' = [plan EXCEPT ![idx].status = "failed",
                            ![idx].result = Concat("Failed: ", ret.msg)]
    /\ ret' = Unset
    /\ idx' = Len(plan) + 1
    /\ pc' = "loop"
    /\ UNCHANGED <<session, research_data, response, calls, findings, web, saved, result>>

\* the except clause of the loop
HandleException ==
    /\ pc = "except"
    /\ plan' = [plan EXCEPT ![idx].status = "failed",
                            ![idx].result = Concat("Failed: ", ret.msg)]
    /\ ret' = Unset
    /\ idx' = idx + 1
    /\ pc' = "loop"
    /\ UNCHANGED <<session, research_data, response, calls, findings, web, saved, result>>

-----------------------------------------------------------------------------
(* generate_final_report                                                   *)

\* mutant: the status of a step is not tested
AllFindingsAnyStatus(steps) ==
    LET kept == SelectSeq(steps, LAMBDA st : Truthy(st.result)) IN
      [k \in 1..Len(kept) |->
         [description |-> kept[k].description, result |-> kept[k].result]]

\* all_findings of generate_final_report
AllFindings(steps) ==
    LET kept == SelectSeq(steps, Quotable) IN
      [k \in 1..Len(kept) |->
         [description |-> kept[k].description, result |-> kept[k].result]]

\* mutant: the loop is left one step early
GenerateFinalReportEarly ==
    /\ pc = "loop"
    /\ idx >= Len(plan)
    /\ calls' = Append(calls, Call("generate_final_report", 0))
    /\ findings' = AllFindings(plan)
    /\ \E o \in Outcomes, disk_ok \in BOOLEAN :
         LET final_report == chat_completion(o) IN
           IF ~ disk_ok
             THEN /\ ret' = Exc("OSError")
                  /\ pc' = "raised"
                  /\ saved' = saved
           ELSE IF final_report.tag # "str"
             THEN /\ ret' = Exc("write() argument must be str, not None")
                  /\ pc' = "raised"
                  /\ saved' = saved + 1
           ELSE /\ ret' = final_report
                /\ pc' = "reported"
                /\ saved' = saved + 1
    /\ UNCHANGED <<session, plan, idx, research_data, response, web, result>>

\* generate_final_report, called once the loop is over: the file cannot be
\* opened (disk_ok false), or f.write(final_report) raises on a None report
\* after the file was created, or the report is saved and returned
GenerateFinalReport ==
    /\ pc = "loop"
    /\ idx > Len(plan)
    /\ calls' = Append(calls, Call("generate_final_report", 0))
    /\ findings' = AllFindings(plan)
    /\ \E o \in Outcomes, disk_ok \in BOOLEAN :
         LET final_report == chat_completion(o) IN
           IF ~ disk_ok
             THEN /\ ret' = Exc("OSError")
                  /\ pc' = "raised"
                  /\ saved' = saved
           ELSE IF final_report.tag # "str"
             THEN /\ ret' = Exc("write() argument must be str, not None")
                  /\ pc' = "raised"
                  /\ saved' = saved + 1
           ELSE /\ ret' = final_report
                /\ pc' = "reported"
                /\ saved' = saved + 1
    /\ UNCHANGED <<session, plan, idx, research_data, response, web, result>>

\* return self.generate_final_report()
ReturnReport ==
    /\ pc = "reported"
    /\ result' = ret
    /\ pc' = "done"
    /\ UNCHANGED <<session, plan, idx, research_data, response, ret, calls, findings, web,
                   saved>>

-----------------------------------------------------------------------------
(* One run of conduct_research on a new agent.                             *)

SearchFails == [ok |-> FALSE]

\* the environments of a web-search step in the run: any reply to the two
\* completion requests; the search fails or finds one abstract with a URL
CoreWebEnvs ==
    { [qo |-> qo, answers |-> [k \in 1..MaxQueries |-> a], page_ok |-> TRUE,
       ao |-> ao] :
        qo \in Outcomes, ao \in Outcomes,
        a \in { SearchFails,
                [ok |-> TRUE, abstract |-> "http://a", topics |-> <<>>] } }

Next ==
    \/ RequestPlan
    \/ BuildPlan
    \/ ReturnPlan
    \/ ExecBegin
    \/ DispatchRaise
    \/ WebSearchStep(CoreWebEnvs, FALSE)
    \/ PdfStep
    \/ AnalysisStep
    \/ StoreResult
    \/ Reflect
    \/ HandleException
    \/ GenerateFinalReport
    \/ ReturnReport

Spec == Init /\ [][Next]_vars

-----------------------------------------------------------------------------
(* generate_final_report applied to a plan in any condition.               *)

StepStatuses == {"pending", "in_progress", "completed", "failed"}

\* plans of MaxReportSteps steps (at most the 6 of the default plan, whose
\* descriptions they carry) with ids 1.., each step in any status and with any
\* result
AssignedPlans ==
    { [k \in 1..MaxReportSteps |->
         [step_id |-> k, description |-> _create_default_plan[k].description,
          status |-> st[k], result |-> rs[k],
          tools_used |-> List(<<"web_search">>)]] :
        st \in [1..MaxReportSteps -> StepStatuses],
        rs \in [1..MaxReportSteps -> {NoneVal, EmptyStr, Text("text")}] }

ReportInit ==
    /\ pc = "loop"
    /\ plan \in AssignedPlans
    /\ idx = Len(plan) + 1
    /\ research_data = <<>>
    /\ response = Unset
    /\ ret = Unset
    /\ calls = <<>>
    /\ findings = <<>>
    /\ web = NoWeb
    /\ saved = 0
    /\ result = Unset
    /\ session = 1

ReportNext ==
    \/ GenerateFinalReport
    \/ ReturnReport

SpecReport == ReportInit /\ [][ReportNext]_vars

-----------------------------------------------------------------------------
(* execute_step applied to one web-search step in any search environment.  *)

\* replies to the query request: n query lines, with or without a blank line
\* after the first
QueryReplies ==
    { Str([k \in 1..n |-> Line("query")]) : n \in 0..MaxLines }
    \cup { Str(<<Line("query"), Line(" ")>> \o [k \in 1..n |-> Line("query")]) :
             n \in 0..(MaxLines - 1) }

QueryOutcomes ==
    {[ok |-> FALSE], [ok |-> TRUE, content |-> NoneVal]}
    \cup {[ok |-> TRUE, content |-> c] : c \in QueryReplies}

\* answers of the search service: a failure, or an abstract (none, without
\* URL, with URL) and related topics (without text, without URL, with URL)
SearchAnswers ==
    { SearchFails }
    \cup [ok : {TRUE}, abstract : {"none", "", "http://a"},
          topics : { <<>>, <<"">>, <<"http://t">>, <<"notext", "http://t">>,
                     <<"", "http://t", "http://u">> }]

WebEnvs ==
    UNION { [qo : {qo},
             answers : [1..(IF chat_completion(qo).tag = "str"
                              THEN Len(Queries(chat_completion(qo))) ELSE 0)
                        -> SearchAnswers],
             page_ok : BOOLEAN,
             ao : Outcomes] : qo \in QueryOutcomes }

SearchInit ==
    /\ pc = "loop"
    /\ plan \in { <<ResearchStep(1, "d", t)>> :
                    t \in { List(<<"web_search">>),
                            List(<<"pdf_reader", "web_search">>) } }
    /\ idx = 1
    /\ research_data = <<>>
    /\ response = Unset
    /\ ret = Unset
    /\ calls = <<>>
    /\ findings = <<>>
    /\ web = NoWeb
    /\ saved = 0
    /\ result = Unset
    /\ session = 1

SearchNext ==
    \/ ExecBegin
    \/ WebSearchStep(WebEnvs, TRUE)

SpecSearch == SearchInit /\ [][SearchNext]_vars

-----------------------------------------------------------------------------
(* conduct_research invoked again on the same agent.                       *)

\* invocations of conduct_research on one agent
MaxSessions == 2

\* longest plan of a run after which the agent is used again
MaxFirstPlan == 1

\* conduct_research is invoked again after a run that returned or raised:
\* the locals are new, self.current_plan stays until create_research_plan
\* assigns it and self.research_data is left as it is (it is assigned in
\* __init__ only); the histories start again with the run
NewSession ==
    /\ pc \in {"done", "raised"}
    /\ session < MaxSessions
    /\ Len(plan) <= MaxFirstPlan
    /\ session' = session + 1
    /\ pc' = "start"
    /\ idx' = 0
    /\ response' = Unset
    /\ ret' = Unset
    /\ result' = Unset
    /\ calls' = <<>>
    /\ findings' = <<>>
    /\ UNCHANGED <<plan, research_data, web, saved>>

SessionsNext ==
    \/ Next
    \/ NewSession

SpecSessions == Init /\ [][SessionsNext]_vars

-----------------------------------------------------------------------------
(* KeyboardInterrupt during conduct_research.                              *)

\* the positions of conduct_research before generate_final_report is called
BeforeReport ==
    {"start", "planning", "planned", "loop", "dispatch", "returned", "reflect",
     "except"}

\* the positions inside the try block of the loop
InsideTry == {"dispatch", "returned", "reflect"}

\* mutant: the except clause of the loop catches the interrupt as well
InterruptCaught ==
    /\ pc \in BeforeReport
    /\ calls' = Append(calls, Call("KeyboardInterrupt", idx))
    /\ IF pc \in InsideTry
         THEN /\ pc' = "except"
              /\ ret' = Exc("KeyboardInterrupt")
         ELSE /\ pc' = "interrupted"
              /\ ret' = ret
    /\ UNCHANGED <<session, plan, idx, research_data, response, findings, web, saved,
                   result>>

\* KeyboardInterrupt is raised while conduct_research is planning, executing
\* a step or reflecting: it is no Exception, so no except clause of the class
\* catches it and it leaves conduct_research at once
Interrupt ==
    /\ pc \in BeforeReport
    /\ calls' = Append(calls, Call("KeyboardInterrupt", idx))
    /\ pc' = "interrupted"
    /\ UNCHANGED <<session, plan, idx, research_data, response, ret, findings, web,
                   saved, result>>

InterruptNext ==
    \/ Next
    \/ Interrupt

SpecInterrupt == Init /\ [][InterruptNext]_vars

-----------------------------------------------------------------------------
(* Vocabulary of the properties.                                           *)

Invoked(op, k) == \E j \in 1..Len(calls) : calls[j] = Call(op, k)

Count(op, k) == Cardinality({ j \in 1..Len(calls) : calls[j] = Call(op, k) })

\* position of the first invocation in the history (0: none)
FirstAt(op, k) ==
    IF Invoked(op, k)
      THEN CHOOSE j \in 1..Len(calls) :
             /\ calls[j] = Call(op, k)
             /\ \A m \in 1..(j - 1) : calls[m] # Call(op, k)
      ELSE 0

ReportInvoked == Invoked("generate_final_report", 0)

\* execute_step raised for the k-th step and the except clause has run
RaisedAndHandled(k) ==
    /\ Invoked("execute_step raised", k)
    /\ ~ (pc = "except" /\ idx = k)

\* the steps after the k-th one have all been handed to execute_step, after it
LaterStepsAttempted(k) ==
    \A m \in (k + 1)..Len(plan) :
        FirstAt("execute_step", m) > FirstAt("execute_step raised", k)

\* the step ids of the plan are pairwise distinct
DistinctIds ==
    \A a, b \in 1..Len(plan) : a # b => plan[a].step_id # plan[b].step_id

\* the loop has moved past the k-th step
AttemptOver(k) == k < idx

\* execute_step was invoked for the k-th step and returned
Returned(k) ==
    /\ Invoked("execute_step", k)
    /\ ~ Invoked("execute_step raised", k)
    /\ ~ (pc = "dispatch" /\ idx = k)

\* the reply holds a block that parses and maps into steps
MapsIntoSteps(v) ==
    /\ v.tag = "str"
    /\ "json" \in DOMAIN v
    /\ v.json.kind = "object"
    /\ "steps" \in DOMAIN v.json
    /\ v.json.steps.tag = "list"
    /\ \A k \in 1..Len(v.json.steps.items) :
          /\ v.json.steps.items[k].tag = "dict"
          /\ {"step_id", "description"} \subseteq DOMAIN v.json.steps.items[k]

\* the positions of the plan handed to execute_step so far, in order
ExecOrder ==
    LET execs == SelectSeq(calls, LAMBDA c : c.op = "execute_step")
    IN [j \in 1..Len(execs) |-> execs[j].idx]

-----------------------------------------------------------------------------
\* C1: failure isolation. When execute_step raises for the k-th step, the step
\* ends failed with a result starting with "Failed: " (and stays so), the run
\* goes on, every later step is handed to execute_step before the report, and
\* generate_final_report is still invoked (the run only ends after it).
C1_FailureIsolation ==
    \A k \in 1..Len(plan) :
      Invoked("execute_step raised", k) =>
        /\ RaisedAndHandled(k) =>
              /\ plan[k].status = "failed"
              /\ StartsWith(plan[k].result, "Failed: ")
        /\ ReportInvoked => LaterStepsAttempted(k)
        /\ ~ ReportInvoked => ENABLED Next
        /\ pc \in {"reported", "raised", "done"} => ReportInvoked

\* a run in which the second of three or more steps raised and the run went on
C1_Witness ==
    /\ ReportInvoked
    /\ Len(plan) >= 3
    /\ Invoked("execute_step raised", 2)
    /\ plan[2].status = "failed"
    /\ plan[3].status = "completed"

-----------------------------------------------------------------------------
\* C2: reflection cadence. Once the k-th step has been attempted, completed or
\* failed, reflect_on_progress has been invoked for it exactly once if its
\* step_id is a multiple of 3 and not at all otherwise, and before the next
\* step starts.
C2_ReflectionCadence ==
    \A k \in 1..Len(plan) :
      AttemptOver(k) =>
        /\ Count("reflect_on_progress", k)
             = (IF plan[k].step_id % 3 = 0 THEN 1 ELSE 0)
        /\ (Invoked("reflect_on_progress", k) /\ Invoked("execute_step", k + 1))
             => FirstAt("reflect_on_progress", k) < FirstAt("execute_step", k + 1)

-----------------------------------------------------------------------------
\* C3 as stated: at synthesis research_data holds exactly one entry for every
\* attempted step of a plan with distinct ids, completed or failed alike.
C3_EntryPerAttemptedStep ==
    (ReportInvoked /\ DistinctIds) =>
      DOMAIN research_data = { StepKey(plan[k].step_id) : k \in 1..Len(plan) }

\* C3 as amended: in a run on a new agent over a plan with distinct ids,
\* research_data holds an entry exactly for the steps whose execute_step has
\* returned (none for a step whose execute_step raised), one per step, and an
\* entry once written is never removed or overwritten.
C3_EntryPerReturnedStep ==
    /\ [](DistinctIds =>
            /\ \A k \in 1..Len(plan) :
                  (Returned(k) /\ ~ (pc = "returned" /\ idx = k))
                    <=> StepKey(plan[k].step_id) \in DOMAIN research_data
            /\ DOMAIN research_data
                  \subseteq { StepKey(plan[k].step_id) : k \in 1..Len(plan) }
            /\ Cardinality(DOMAIN research_data)
                  = Cardinality({ k \in 1..Len(plan) :
                                    Returned(k) /\ ~ (pc = "returned" /\ idx = k) }))
    /\ [][DistinctIds =>
            \A key \in DOMAIN research_data :
              /\ key \in DOMAIN research_data'
              /\ research_data'[key] = research_data[key]]_vars

\* a finished loop over distinct ids in which one step raised, two returned
C3_Witness ==
    /\ ReportInvoked
    /\ DistinctIds
    /\ \E k \in 1..Len(plan) : Invoked("execute_step raised", k)
    /\ Cardinality(DOMAIN research_data) >= 2

-----------------------------------------------------------------------------
\* C4: step status is monotonic. A step moves only pending -> in_progress ->
\* completed or failed, a completed or failed step never changes status again,
\* and its result is assigned only at the moment it becomes completed or failed.
C4_StatusMonotonic ==
    [][\A k \in 1..Len(plan) :
         /\ plan'[k].status # plan[k].status =>
               <<plan[k].status, plan'[k].status>> \in
                 { <<"pending", "in_progress">>,
                   <<"in_progress", "completed">>,
                   <<"in_progress", "failed">> }
         /\ plan'[k].result # plan[k].result =>
               /\ plan[k].status = "in_progress"
               /\ plan'[k].status \in {"completed", "failed"}]_vars

-----------------------------------------------------------------------------
\* C5 as stated: over a plan with distinct ids execute_step is invoked in
\* ascending step_id order.
C5_AscendingIdOrder ==
    DistinctIds =>
      \A i, j \in 1..Len(ExecOrder) :
        i < j => plan[ExecOrder[i]].step_id < plan[ExecOrder[j]].step_id

\* C5 as amended: execute_step is invoked on the steps in the order in which
\* the plan stores them, which is the order of the "steps" array of the
\* completion reply: the plan is not sorted by step_id.
C5_PlanOrder ==
    /\ ExecOrder = [j \in 1..Len(ExecOrder) |-> j]
    /\ (pc = "planned" /\ MapsIntoSteps(response)) =>
          /\ Len(plan) = Len(response.json.steps.items)
          /\ \A k \in 1..Len(plan) :
                plan[k].step_id = response.json.steps.items[k].step_id

\* a finished loop over a plan that lists a larger id before a smaller one
C5_Witness ==
    /\ ReportInvoked
    /\ DistinctIds
    /\ Len(plan) = 2
    /\ plan[1].step_id > plan[2].step_id
    /\ ExecOrder = <<1, 2>>

-----------------------------------------------------------------------------
\* C6: plan fallback. For every completion reply in which no JSON block is
\* found, or whose block fails to parse or to map into steps (the "Error: ..."
\* payload included), create_research_plan does not raise and its plan is
\* exactly the 6 default steps: ids 1..6 in order, steps 1-5 tagged
\* ["web_search"], step 6 with no tools, all pending.
C6_PlanFallback ==
    /\ pc = "planning" => ENABLED BuildPlan
    /\ (pc = "planned" /\ ~ MapsIntoSteps(response)) =>
          /\ Len(plan) = 6
          /\ \A k \in 1..Len(plan) :
                /\ plan[k].step_id = k
                /\ plan[k].status = "pending"
                /\ plan[k].tools_used =
                      (IF k <= 5 THEN List(<<"web_search">>) ELSE List(<<>>))

\* the plan built from the error payload of the completion client
C6_Witness ==
    /\ pc = "planned"
    /\ response = ErrorText
    /\ Len(plan) = 6
    /\ plan[6].tools_used = List(<<>>)

-----------------------------------------------------------------------------
\* a measure of the work left in the run: every step of the run lowers it
Variant ==
    LET base == 6 * (Len(_create_default_plan) + MaxSteps + 2)
        left == 6 * (Len(plan) + 1 - idx)
    IN CASE pc = "start" -> base + 3
         [] pc = "planning" -> base + 2
         [] pc = "planned" -> base + 1
         [] pc = "loop" -> left + 5
         [] pc = "dispatch" -> left + 4
         [] pc = "returned" -> left + 3
         [] pc = "reflect" -> left + 2
         [] pc = "except" -> left + 1
         [] pc = "reported" -> 1
         [] OTHER -> 0

\* C7: terminal transition. For every plan and every pattern of step successes
\* and exceptions the run goes on until generate_final_report is invoked (a run
\* that has not ended can take a step, and every step lowers Variant); it is
\* invoked once, only after execute_step was invoked for every step of the
\* plan, and what conduct_research returns is the text it returned.
C7_TerminalTransition ==
    /\ [](/\ Count("generate_final_report", 0) <= 1
          /\ ReportInvoked =>
                \A k \in 1..Len(plan) :
                  Invoked("execute_step", k) /\ AttemptOver(k)
          /\ ReportInvoked <=> pc \in {"reported", "raised", "done"}
          /\ pc = "done" => (result = ret /\ result.tag = "str")
          /\ pc \notin {"done", "raised"} => ENABLED Next)
    /\ [][Variant' < Variant]_vars

\* a run that returned a report after one step failed and another completed
C7_Witness ==
    /\ pc = "done"
    /\ result.tag = "str"
    /\ \E k \in 1..Len(plan) : plan[k].status = "failed"
    /\ \E k \in 1..Len(plan) : plan[k].status = "completed"

-----------------------------------------------------------------------------
PathOps ==
    {"_execute_web_search_step", "_execute_pdf_step", "_execute_analysis_step"}

\* the path calls made for the k-th step
PathCalls(k) ==
    { j \in 1..Len(calls) : calls[j].idx = k /\ calls[j].op \in PathOps }

\* C8: dispatch priority. A step whose tools_used holds "web_search" takes the
\* web-search path, else one that holds "pdf_reader" takes the document path,
\* else the step takes the analysis path; one path runs per call of
\* execute_step, and a step tagged with both takes the web-search path.
C8_DispatchPriority ==
    \A k \in 1..Len(plan) :
      plan[k].tools_used.tag = "list" =>
        LET tags == { plan[k].tools_used.items[m] :
                        m \in 1..Len(plan[k].tools_used.items) }
        IN /\ Cardinality(PathCalls(k)) <= 1
           /\ AttemptOver(k) => Cardinality(PathCalls(k)) = 1
           /\ \A j \in PathCalls(k) :
                 calls[j].op =
                   (IF "web_search" \in tags THEN "_execute_web_search_step"
                    ELSE IF "pdf_reader" \in tags THEN "_execute_pdf_step"
                    ELSE "_execute_analysis_step")

\* a step tagged with both tools has taken the web-search path
C8_Witness ==
    \E k \in 1..Len(plan) :
      /\ plan[k].tools_used = List(<<"web_search", "pdf_reader">>)
      /\ Invoked("_execute_web_search_step", k)
      /\ ~ Invoked("_execute_pdf_step", k)
      /\ AttemptOver(k)

-----------------------------------------------------------------------------
\* the search failed on the q-th query of the last web-search step
SearchFailed(q) ==
    \E j \in 1..Len(web.per_query[q]) : web.per_query[q][j].source = "error"

\* C9: adapter error absorption. When the search fails on every query, each
\* search call returns one result whose source is "error", the step still ends
\* completed, and the search error text is part of the input of the
\* summarizing completion call.
C9_AdapterErrorAbsorption ==
    (/\ pc = "returned"
     /\ Len(web.queries) >= 1
     /\ \A q \in 1..Len(web.queries) : SearchFailed(q)) =>
        /\ \A q \in 1..Len(web.queries) :
              /\ Len(web.per_query[q]) = 1
              /\ web.per_query[q][1].source = "error"
        /\ plan[idx].status = "completed"
        /\ \E j \in 1..Len(web.analysis_input) :
              \/ web.analysis_input[j].title = "Search Error"
              \/ web.analysis_input[j].content = Text("Could not perform search: e")

-----------------------------------------------------------------------------
\* the positions of the steps that are completed with a non-empty result
Reportable ==
    { k \in 1..Len(plan) :
        /\ plan[k].status = "completed"
        /\ plan[k].result.tag = "str"
        /\ Len(plan[k].result.lines) > 0 }

\* the j-th smallest position of Reportable
NthReportable(j) ==
    CHOOSE k \in Reportable : Cardinality({ m \in Reportable : m < k }) = j - 1

\* C10: report assembly. Whatever the statuses and results of the steps, the
\* findings generate_final_report hands to the completion call are the steps
\* that are completed with a non-empty result, each once, in plan order; no
\* failed, pending or in_progress step appears.
C10_ReportAssembly ==
    ReportInvoked =>
      /\ Len(findings) = Cardinality(Reportable)
      /\ \A j \in 1..Len(findings) :
            findings[j] = [description |-> plan[NthReportable(j)].description,
                           result |-> plan[NthReportable(j)].result]

\* the report of a plan in which only steps 2 and 4 are completed with a result
C10_Witness ==
    /\ ReportInvoked
    /\ Len(plan) >= 4
    /\ plan[1].status = "failed" /\ Truthy(plan[1].result)
    /\ plan[2].status = "completed" /\ Truthy(plan[2].result)
    /\ plan[3].status = "pending"
    /\ plan[4].status = "completed" /\ Truthy(plan[4].result)
    /\ \A k \in 5..Len(plan) : plan[k].status = "in_progress"
    /\ findings = << [description |-> plan[2].description, result |-> plan[2].result],
                     [description |-> plan[4].description, result |-> plan[4].result] >>

-----------------------------------------------------------------------------
\* C11: persistence errors. When writing the report artifact fails, no
\* exception escapes generate_final_report to the caller of conduct_research:
\* once generate_final_report has been invoked the run is returning a text, and
\* it never ends with an exception in flight.
C11_PersistenceErrors ==
    ReportInvoked =>
      /\ pc \in {"reported", "done"}
      /\ ret.tag = "str"

-----------------------------------------------------------------------------
\* C12: plan well-formedness. For every completion reply the plan that
\* create_research_plan returns has step_ids that are positive integers and
\* pairwise distinct.
C12_PlanWellFormed ==
    pc = "planned" =>
      /\ \A k \in 1..Len(plan) : plan[k].step_id \in Nat \ {0}
      /\ DistinctIds

-----------------------------------------------------------------------------
\* the keys research_data may hold for the steps of the current plan: those of
\* the steps handed to execute_step in this run
SessionKeys ==
    IF pc \in {"start", "planning"} THEN {}
    ELSE { StepKey(plan[k].step_id) :
             k \in { m \in 1..Len(plan) : Invoked("execute_step", m) } }

\* C13: session isolation. When conduct_research is invoked again on the same
\* agent, research_data holds in the later run only entries written for steps
\* of that run's plan: no entry of an earlier run is visible in it.
C13_SessionIsolation ==
    session > 1 => DOMAIN research_data \subseteq SessionKeys

-----------------------------------------------------------------------------
\* the positions before the current step whose step is completed with a
\* non-empty result
Prior ==
    { k \in 1..(idx - 1) :
        /\ plan[k].status = "completed"
        /\ plan[k].result.tag = "str"
        /\ Len(plan[k].result.lines) > 0 }

\* the j-th smallest position of Prior
NthPrior(j) ==
    CHOOSE k \in Prior : Cardinality({ m \in Prior : m < k }) = j - 1

\* _execute_analysis_step has just returned for the current step
AnalysisReturned ==
    /\ pc = "returned"
    /\ calls[Len(calls)] = Call("_execute_analysis_step", idx)

\* C14: analysis path. When a step is executed through _execute_analysis_step
\* the findings handed to the completion call are exactly the steps before the
\* current one in plan order that are completed with a non-empty result, all
\* of them, each once and in plan order; the current step and the steps after
\* it do not appear.
C14_AnalysisFindings ==
    AnalysisReturned =>
      /\ Len(findings) = Cardinality(Prior)
      /\ \A j \in 1..Len(findings) :
            findings[j] = [step_id |-> plan[NthPrior(j)].step_id,
                           result |-> plan[NthPrior(j)].result]
      /\ \A k \in (idx + 1)..Len(plan) : plan[k].status = "pending"

\* the analysis step of the default plan after one of the five search steps
\* failed and at least two completed with a result
C14_Witness ==
    /\ AnalysisReturned
    /\ idx = 6
    /\ \E k \in 1..5 : plan[k].status = "failed"
    /\ Len(findings) >= 2
    /\ Len(findings) < 5

-----------------------------------------------------------------------------
\* C15: no retry. In one run of conduct_research execute_step is invoked at
\* most once for a step and exactly once for each step the loop has passed, in
\* the order in which the plan stores the steps, whether or not earlier steps
\* failed; a failed step is behind the loop and is not executed again; when
\* generate_final_report is invoked every step was handed over once.
C15_NoRetry ==
    /\ \A k \in 1..Len(plan) :
          /\ Count("execute_step", k) <= 1
          /\ AttemptOver(k) => Count("execute_step", k) = 1
          /\ plan[k].status = "failed" => AttemptOver(k)
    /\ \A j \in 1..Len(ExecOrder) : ExecOrder[j] = j
    /\ ReportInvoked => Len(ExecOrder) = Len(plan)

\* the report of the default plan is reached after its first and fourth steps
\* failed, each step handed to execute_step once
C15_Witness ==
    /\ ReportInvoked
    /\ Len(plan) = 6
    /\ plan[1].status = "failed"
    /\ plan[4].status = "failed"
    /\ ExecOrder = <<1, 2, 3, 4, 5, 6>>

-----------------------------------------------------------------------------
\* the positions of the accumulated results that carry a non-empty URL
WithUrl ==
    { k \in 1..Len(web.all_results) : web.all_results[k].url # "" }

\* the j-th smallest position of WithUrl
NthWithUrl(j) ==
    CHOOSE k \in WithUrl : Cardinality({ m \in WithUrl : m < k }) = j - 1

\* C16: web-search fetch selection. At most 3 queries are searched, one search
\* each, and pages are fetched for the first 3 accumulated results that carry a
\* non-empty URL (for all of them when fewer than 3 do), in result order:
\* results with an empty URL are skipped and do not count toward the 3.
C16_FetchSelection ==
    (pc = "returned" /\ Invoked("_execute_web_search_step", idx)) =>
      /\ Len(web.queries) <= 3
      /\ Len(web.per_query) = Len(web.queries)
      /\ Len(web.fetched) = Min(3, Cardinality(WithUrl))
      /\ \A j \in 1..Len(web.fetched) : web.fetched[j] = NthWithUrl(j)


\* the positions among the first 3 accumulated results that carry a URL
UrlInTop ==
    { k \in 1..Len(web.all_results) : k <= 3 /\ web.all_results[k].url # "" }

\* C16 as amended: at most 3 queries are searched, one search each, and pages
\* are fetched for those of the first 3 accumulated results that carry a
\* non-empty URL, each once and in result order: a result without URL among
\* the first 3 is skipped and still counts toward the 3, and no result after
\* the third is fetched.
C16_FetchTopThree ==
    (pc = "returned" /\ Invoked("_execute_web_search_step", idx)) =>
      /\ Len(web.queries) <= 3
      /\ Len(web.per_query) = Len(web.queries)
      /\ Len(web.fetched) = Cardinality(UrlInTop)
      /\ \A j \in 1..Len(web.fetched) : web.fetched[j] \in UrlInTop
      /\ \A i, j \in 1..Len(web.fetched) : i < j => web.fetched[i] < web.fetched[j]
      /\ Len(web.content_samples) = Len(web.fetched)
      /\ \A j \in 1..Len(web.fetched) :
            web.content_samples[j].url = web.all_results[web.fetched[j]].url

\* a step whose second result has no URL and whose fourth has one: the pages
\* of the first and third results are fetched, the fourth is not
C16_Witness ==
    /\ pc = "returned"
    /\ Invoked("_execute_web_search_step", idx)
    /\ Len(web.all_results) >= 4
    /\ web.all_results[2].url = ""
    /\ web.all_results[4].url # ""
    /\ web.fetched = <<1, 3>>

-----------------------------------------------------------------------------
\* C17: frame of the loop. Once create_research_plan has returned the plan
\* keeps its steps, their order and every step's step_id, description and
\* tools_used for the rest of the run; a step of the loop changes at most the
\* status and result of the step being executed; reflect_on_progress and
\* generate_final_report change no field of any step.
C17_LoopFrame ==
    [][pc \notin {"start", "planning"} =>
         /\ Len(plan') = Len(plan)
         /\ \A k \in 1..Len(plan) :
               /\ plan'[k].step_id = plan[k].step_id
               /\ plan'[k].description = plan[k].description
               /\ plan'[k].tools_used = plan[k].tools_used
               /\ plan'[k] # plan[k] => k = idx
         /\ pc = "reflect" => plan' = plan
         /\ Len(calls') > Len(calls)
              /\ calls'[Len(calls')] = Call("generate_final_report", 0)
              => plan' = plan
         /\ pc \in {"planned", "returned", "reported"} => plan' = plan]_vars

\* a run over two or more steps has ended after a reflection: the first step
\* failed, a later one completed and the tools of the plan are as planned
C17_Witness ==
    /\ pc = "done"
    /\ Len(plan) = 6
    /\ plan = [k \in 1..6 |->
                 [_create_default_plan[k] EXCEPT !.status = plan[k].status,
                                                 !.result = plan[k].result]]
    /\ Invoked("reflect_on_progress", 3)
    /\ plan[1].status = "failed"
    /\ plan[3].status = "completed"

-----------------------------------------------------------------------------
\* an interrupt has arrived in this run
Interrupted == \E j \in 1..Len(calls) : calls[j].op = "KeyboardInterrupt"

\* C18: interrupt. When an interrupt arrives while conduct_research is
\* planning, executing a step or reflecting, the run ends there: nothing is
\* invoked after it, the step in hand is not marked failed and no step changes,
\* generate_final_report is not invoked, nothing is returned and no report
\* artifact is written; an artifact is written only after every step of the
\* plan was handed to execute_step.
C18_Interrupt ==
    /\ [](Interrupted =>
            /\ pc = "interrupted"
            /\ calls[Len(calls)].op = "KeyboardInterrupt"
            /\ ~ ENABLED InterruptNext
            /\ idx \in 1..Len(plan) => plan[idx].status # "failed"
            /\ ~ ReportInvoked
            /\ result = Unset
            /\ saved = 0)
    /\ [](saved > 0 =>
            /\ pc \notin {"start", "planning"}
            /\ \A k \in 1..Len(plan) : Invoked("execute_step", k) /\ AttemptOver(k))
    /\ [][(~ Interrupted /\ Interrupted') =>
            /\ plan' = plan
            /\ research_data' = research_data
            /\ saved' = saved]_vars

\* the run was interrupted while its second step was being executed, after
\* the first had completed and stored its result
C18_Witness ==
    /\ pc = "interrupted"
    /\ idx = 2
    /\ plan[1].status = "completed"
    /\ plan[2].status = "in_progress"
    /\ DOMAIN research_data # {}
    /\ saved = 0

-----------------------------------------------------------------------------
\* the positions of the steps that are in progress
InProgress == { k \in 1..Len(plan) : plan[k].status = "in_progress" }

\* C19: sequential progress. In every state of a run at most one step is
\* in_progress; every step before it in plan order is completed or failed and
\* every step after it is pending; when generate_final_report is invoked no
\* step is pending or in_progress.
C19_SequentialProgress ==
    /\ Cardinality(InProgress) <= 1
    /\ \A k \in InProgress :
          /\ k = idx
          /\ \A m \in 1..(k - 1) : plan[m].status \in {"completed", "failed"}
          /\ \A m \in (k + 1)..Len(plan) : plan[m].status = "pending"
    /\ ReportInvoked =>
          \A k \in 1..Len(plan) : plan[k].status \in {"completed", "failed"}

\* the second step is in progress after the first failed, the third pending
C19_Witness ==
    /\ Len(plan) >= 3
    /\ InProgress = {2}
    /\ plan[1].status = "failed"
    /\ plan[3].status = "pending"

-----------------------------------------------------------------------------
\* execute_step returned the error text of the completion client for the k-th
\* step: the entry stored for it holds that text
ReturnedErrorText(k) ==
    /\ Returned(k)
    /\ StepKey(plan[k].step_id) \in DOMAIN research_data
    /\ research_data[StepKey(plan[k].step_id)] = ErrorText

\* C20: completion failure never fails a step. When the completion call of a
\* web-search or analysis step fails, chat_completion returns a text beginning
\* with "Error: ", execute_step returns it instead of raising, and the step is
\* and stays completed (never failed) with that text as its result, which is
\* stored in research_data and is among the findings of the report.
C20_CompletionFailureCompletes ==
    /\ StartsWith(chat_completion([ok |-> FALSE]), "Error: ")
    /\ DistinctIds =>
         \A k \in 1..Len(plan) :
           ReturnedErrorText(k) =>
             /\ plan[k].status = "completed"
             /\ plan[k].result = ErrorText
             /\ ReportInvoked =>
                  \E j \in 1..Len(findings) :
                    findings[j] = [description |-> plan[k].description,
                                   result |-> ErrorText]

====
